---- MODULE Spec2Model ----
(***************************************************************************)
(* Round engine of CryptoCrash (crypto-crash-backend/src/services).       *)
(*                                                                         *)
(* The engine is one Node.js process: handlers run to their next `await`  *)
(* without interruption, and any other handler (a timer, an interval      *)
(* firing, a socket message) may run between an `await` and its           *)
(* continuation.  A continuation that is waiting for its I/O is a record  *)
(* in the bag `tasks`; each step of the model is one synchronous stretch  *)
(* of a handler.                                                           *)
(*                                                                         *)
(* Units.  Time is counted in seconds.  Multipliers (currentMultiplier,   *)
(* crashPoint, autoCashOut, cashedOutAt) are hundredths: 101 is 1.01x.    *)
(* USD amounts are thousandths of a dollar: 10 is $0.01.  Crypto amounts   *)
(* are integers of a unit small enough that every usdAmount / price and   *)
(* every cryptoAmount * multiplier of the model is exact.                 *)
(***************************************************************************)
EXTENDS Integers, Sequences, FiniteSets, Bags, TLC

\* ---------------------------------------------------------------- bounds
MaxTime == 13          \* the clock stops here
MaxBetReqs == 2        \* place_bet calls let in over a run
MaxCashReqs == 2       \* manual cashout calls let in over a run
GrowthSecs == 2        \* seconds per 0.01 of multiplier growth (source: ~166 s near 1.00x)
TickSecs == 1          \* seconds between two modelled firings of the interval (source: 0.1 s)
HashBits == 8          \* width of the integer taken from the hash (source: 32)
InitBalance == 150     \* wallet balance every user starts with
IdleMaxTime == 20      \* where the clock stops when no client sends anything
MaxRoundNumber == 3    \* round numbers the proof functions are applied to
GatewayMaxTime == 7    \* where the clock stops when one client places small bets
ValidationMaxTime == 1 \* where the clock stops when only the validation of requests is looked at
MaxOps == 101          \* events one connection sends
MaxFaults == 2         \* store calls that fail over a run
FaultMaxTime == 13     \* where the clock stops when store calls may fail
QuoteStep == 5         \* seconds between two looks at CryptoService
QuoteMaxTime == 15     \* where the clock stops when CryptoService is looked at

\* ------------------------------------------------------ program constants
WaitSecs == 5          \* setTimeout(startGame, 5000)
PostCrashSecs == 5     \* setTimeout(scheduleNextRound, 5000)
GapSecs == 1           \* setTimeout(startNewRound, 1000)
MinCrash == 101        \* Math.max(1.01, ...)
MaxCrash == 100000     \* Math.min(result, 1000)
MinBet == 10           \* usdAmount < 0.01
MaxBet == 10000000     \* usdAmount > 10000
MinAutoCashOut == 101      \* autoCashOut < 1.01
MaxAutoCashOut == 100000   \* autoCashOut > 1000
Null == -1             \* a field the request leaves out (null, undefined)
NoWallet == -1         \* user.wallets.find(...) found no wallet
RateLimit == 100       \* socket.rateLimiter.requests.length >= 100
WindowSecs == 60       \* now - time < 60000
CacheSecs == 10        \* this.cacheTimeout: PRICE_CACHE_DURATION || 10000

Users == {"u1", "u2"}
Currencies == {"BTC"}              \* the wallets a user has
SupportedCurrencies == {"BTC", "ETH", "LTC", "ADA", "DOT"}
UsdAmounts == {200}
Prices == {2}
AutoCashOuts == {0, 101}      \* 0 is null
HashInts == 0 .. 2^HashBits - 1    \* what parseInt(hexSubstring, 16) can be
AllSeeds == 0 .. 2^HashBits - 1    \* what generateSeed() can return
Seeds == {2^HashBits - 1}          \* the seeds the rounds of the engine draw

VARIABLES
    now,                \* Date.now(), in seconds
    roundNumber,        \* GameService.roundNumber
    currentGame,        \* GameService.currentGame: index into games, 0 is null
    games,              \* every Game document created, in creation order
    multiplierInterval, \* GameService.multiplierInterval: index into intervals, 0 is null
    intervals,          \* every interval created by setInterval
    timers,             \* pending setTimeout callbacks
    tasks,              \* continuations waiting for an awaited call
    dbUsers,            \* the users collection
    emitted,            \* io.emit: per game, what has been broadcast
    betReqs,            \* place_bet calls that got past the status check
    cashReqs,           \* cashout calls that got past the two checks
    pf,                 \* ProvablyFair called on its own: arguments and results
    reply,              \* socket.emit of the step just taken: what it sent to which socket
    conn,               \* one socket: its rateLimiter and the events handled on it
    faults,             \* the store calls that have failed (rejected promises)
    quotes              \* CryptoService: priceCache, the fetch under way, the last price returned

\* The parts of the program that the handlers of the round engine leave alone.
aside == <<pf, conn, faults, quotes>>

\* The engine's variables other than `reply`: what a handler that only
\* answers its socket leaves alone.
roundVars == <<now, roundNumber, currentGame, games, multiplierInterval, intervals,
               timers, tasks, dbUsers, emitted, betReqs, cashReqs>>

vars == <<now, roundNumber, currentGame, games, multiplierInterval, intervals,
          timers, tasks, dbUsers, emitted, betReqs, cashReqs, pf, reply,
          conn, faults, quotes>>

\* ------------------------------------------------------------ provablyFair
\* crypto.createHash('sha256').update(data).digest('hex'), cut to HashBits
\* bits: a fixed mixing of the data.  It is one-to-one on 0 .. 2^HashBits - 1,
\* so two different seeds never have the same hash.
Sha256(data) == (data * 167 + 89) % 2^HashBits

\* createHash(seed)
CreateHash(seed) == Sha256(seed)

\* generateCrashPoint, lines 19-25: the integer taken from the first
\* characters of sha256(seed + roundNumber.toString()).  seed * 17 + rn stands
\* for the concatenation: different for different pairs while rn < 17, and
\* for each round number every integer is the value of some seed.
HashInt(seed, rn) == Sha256(seed * 17 + rn)

GenerateCrashPoint_Unclamped(x) ==
    LET M == 2^HashBits - 1
    IN  (100 * 25 * (M - x)) \div (25 * M - x)

\* generateCrashPoint, lines 27-36: result = (M - x) / (M - x * 0.04), clamped
\* to [1.01, 1000], floored to hundredths.  (M - x)/(M - x/25) = 25(M - x)/(25M - x).
GenerateCrashPoint(x) ==
    LET M == 2^HashBits - 1
        num == 25 * (M - x)
        den == 25 * M - x
    IN  IF 100 * num < MinCrash * den THEN MinCrash
        ELSE IF 100 * num > MaxCrash * den THEN MaxCrash
        ELSE (100 * num) \div den

CrashPointOf_Fallback(seed, rn) == 150

\* generateCrashPoint(seed, roundNumber)
CrashPointOf(seed, rn) == GenerateCrashPoint(HashInt(seed, rn))

\* generateRoundData(roundNumber), for the seed generateSeed() returned
GenerateRoundData(seed, rn) ==
    [seed |-> seed, hash |-> CreateHash(seed), crashPoint |-> CrashPointOf(seed, rn)]

Abs(d) == IF d < 0 THEN -d ELSE d

ValidateProof_NoHashCheck(seed, hash, rn, crashPoint) ==
    IF Abs(CrashPointOf(seed, rn) - crashPoint) > 1
       THEN [valid |-> FALSE, reason |-> "Crash point does not match calculation"]
       ELSE [valid |-> TRUE, reason |-> "Proof is valid"]

\* validateProof(seed, hash, roundNumber, crashPoint)
ValidateProof(seed, hash, rn, crashPoint) ==
    IF CreateHash(seed) # hash
       THEN [valid |-> FALSE, reason |-> "Hash does not match seed"]
       ELSE IF Abs(CrashPointOf(seed, rn) - crashPoint) > 1
               THEN [valid |-> FALSE, reason |-> "Crash point does not match calculation"]
               ELSE [valid |-> TRUE, reason |-> "Proof is valid"]

\* ------------------------------------------------------------- documents
NewGame(rn, seed) ==
    [roundNumber |-> rn, seed |-> seed, hash |-> GenerateRoundData(seed, rn).hash,
     crashPoint |-> GenerateRoundData(seed, rn).crashPoint,
     status |-> "waiting", currentMultiplier |-> 100, bets |-> <<>>, totalBets |-> 0]

\* The payloads of io.emit('new_round', ...) and io.emit('game_crashed', ...)
\* for round g; roundId is the round's place in `games`, timestamps are left out.
NewRoundMsg(g) == [roundId |-> g, hash |-> games[g].hash, status |-> "waiting"]
GameCrashedMsg(g) == [roundId |-> g, crashPoint |-> games[g].crashPoint]
NoMsg == [roundId |-> 0]

\* The fields of the payload of every event the engine broadcasts.
PayloadFields ==
    [newRound |-> {"roundId", "hash", "status"},
     gameStarted |-> {"roundId", "startedAt"},
     multiplierUpdate |-> {"roundId", "multiplier", "timestamp"},
     betPlaced |-> {"roundId", "username", "usdAmount", "currency", "autoCashOut"},
     playerCashout |-> {"roundId", "username", "multiplier", "usdPayout", "profit", "isAuto"},
     gameCrashed |-> {"roundId", "crashPoint", "timestamp"}]

NoEmits == [newRound |-> 0, gameStarted |-> 0, gameCrashed |-> 0,
            betPlaced |-> 0, playerCashout |-> 0, multiplierUpdate |-> 0,
            lastMultiplier |-> 0, lastNewRound |-> NoMsg, lastGameCrashed |-> NoMsg]

\* pf before ProvablyFair has been called on its own
NoProof == [op |-> "none"]

\* A socket that is not connected: no rateLimiter, no event handled.
NoConn == [open |-> FALSE, requests |-> <<>>, ops |-> 0]

\* CryptoService after its constructor: an empty priceCache, no fetch under
\* way, no price returned yet.  A cached price is never 0 (`!price` throws
\* before the cache is set), so price 0 marks a key the cache does not hold.
NoEntry == [price |-> 0, timestamp |-> 0]
NoCall == [cur |-> "none", price |-> 0, fetched |-> FALSE]
NoQuotes == [cache |-> [c \in SupportedCurrencies |-> NoEntry],
             pending |-> {}, last |-> NoCall]

\* socket.emit(ev, ...) to the socket of user `to`; message is the text of an
\* 'error' event.  NoReply: the step sent nothing to any one socket.
Reply(to, ev, message) == [to |-> to, ev |-> ev, message |-> message]
NoReply == Reply("none", "none", "none")

NewBet(u, usd, crypto, cur, price, aco) ==
    [userId |-> u, usdAmount |-> usd, cryptoAmount |-> crypto, currency |-> cur,
     priceAtTime |-> price, autoCashOut |-> IF aco > 100 THEN aco ELSE 0,
     cashedOut |-> FALSE, cashedOutAt |-> 0, payout |-> 0, profit |-> 0]

NewUser == [wallets |-> [c \in Currencies |-> InitBalance],
            totalBets |-> 0, totalWins |-> 0, totalProfit |-> 0]

\* A continuation.  k names the await it is waiting on.
Task(k) == [k |-> k, u |-> "none", cur |-> "none", g |-> 0, b |-> 0,
            m |-> 0, rest |-> <<>>, usd |-> 0, aco |-> 0, bal |-> 0,
            init |-> FALSE, isAuto |-> FALSE]

Timer(kind, delay) == [kind |-> kind, at |-> now + delay]

Add(bag, e) == bag (+) SetToBag({e})
Remove(bag, e) == bag (-) SetToBag({e})

Emit(em, g, ev) == [em EXCEPT ![g][ev] = @ + 1]

\* ------------------------------------------------------------------ Init
\* The constructor calls init(), which runs startNewRound() up to its first
\* await (currentGame.save()).
Init ==
    /\ now = 0
    /\ roundNumber = 1
    /\ \E seed \in Seeds : games = <<NewGame(1, seed)>>
    /\ currentGame = 1
    /\ multiplierInterval = 0
    /\ intervals = <<>>
    /\ timers = EmptyBag
    /\ tasks = SetToBag({[Task("snr_save") EXCEPT !.init = TRUE]})
    /\ dbUsers = [u \in Users |-> NewUser]
    /\ emitted = <<NoEmits>>
    /\ betReqs = 0
    /\ cashReqs = 0
    /\ pf = NoProof
    /\ reply = NoReply
    /\ conn = NoConn
    /\ faults = <<>>
    /\ quotes = NoQuotes

\* --------------------------------------------------------- startNewRound
\* startNewRound after `await this.currentGame.save()`: emit new_round for
\* whatever this.currentGame is now, arm the 5 s timer.  When called from
\* init(), scheduleNextRound() follows at once.
StartNewRoundSaved ==
    \E t \in BagToSet(tasks) :
        /\ t.k = "snr_save"
        /\ emitted' = [Emit(emitted, currentGame, "newRound") EXCEPT
                           ![currentGame].lastNewRound = NewRoundMsg(currentGame)]
        /\ tasks' = Remove(tasks, t)
        /\ IF t.init
              THEN /\ roundNumber' = roundNumber + 1
                   /\ timers' = Add(Add(timers, Timer("wait", WaitSecs)), Timer("gap", GapSecs))
              ELSE /\ roundNumber' = roundNumber
                   /\ timers' = Add(timers, Timer("wait", WaitSecs))
        /\ reply' = NoReply
        /\ UNCHANGED <<aside, now, currentGame, games, multiplierInterval, intervals,
                       dbUsers, betReqs, cashReqs>>

\* The 1 s timer of scheduleNextRound fires: startNewRound up to its await.
StartNewRound ==
    \E tm \in BagToSet(timers), seed \in Seeds :
        /\ tm.kind = "gap" /\ tm.at = now
        /\ timers' = Remove(timers, tm)
        /\ games' = Append(games, NewGame(roundNumber, seed))
        /\ currentGame' = Len(games) + 1
        /\ emitted' = Append(emitted, NoEmits)
        /\ tasks' = Add(tasks, Task("snr_save"))
        /\ reply' = NoReply
        /\ UNCHANGED <<aside, now, roundNumber, multiplierInterval, intervals,
                       dbUsers, betReqs, cashReqs>>

\* The 5 s timer armed by crashGame fires: scheduleNextRound.
ScheduleNextRound ==
    \E tm \in BagToSet(timers) :
        /\ tm.kind = "post" /\ tm.at = now
        /\ roundNumber' = roundNumber + 1
        /\ timers' = Add(Remove(timers, tm), Timer("gap", GapSecs))
        /\ reply' = NoReply
        /\ UNCHANGED <<aside, now, currentGame, games, multiplierInterval, intervals,
                       tasks, dbUsers, emitted, betReqs, cashReqs>>

\* -------------------------------------------------------------- startGame
\* The 5 s timer armed by startNewRound fires: startGame up to its await.
StartGame ==
    \E tm \in BagToSet(timers) :
        /\ tm.kind = "wait" /\ tm.at = now
        /\ timers' = Remove(timers, tm)
        /\ IF currentGame = 0
              THEN UNCHANGED <<games, tasks>>
              ELSE /\ games' = [games EXCEPT ![currentGame].status = "running"]
                   /\ tasks' = Add(tasks, Task("sg_save"))
        /\ reply' = NoReply
        /\ UNCHANGED <<aside, now, roundNumber, currentGame, multiplierInterval, intervals,
                       dbUsers, emitted, betReqs, cashReqs>>

\* startGame after its await: emit game_started, startMultiplierUpdates.
StartGameSaved ==
    \E t \in BagToSet(tasks) :
        /\ t.k = "sg_save"
        /\ tasks' = Remove(tasks, t)
        /\ emitted' = Emit(emitted, currentGame, "gameStarted")
        /\ intervals' = Append(intervals,
                               [startTime |-> now, crashPoint |-> games[currentGame].crashPoint,
                                active |-> TRUE, next |-> now + TickSecs])
        /\ multiplierInterval' = Len(intervals) + 1
        /\ reply' = NoReply
        /\ UNCHANGED <<aside, now, roundNumber, currentGame, games, timers,
                       dbUsers, betReqs, cashReqs>>

\* ---------------------------------------------------------- processCashout
Indices(seq) == [i \in 1..Len(seq) |-> i]

IsActiveBet_AnyBetOfUser(bet, u) == bet.userId = u

\* b.userId.toString() === userId.toString() && !b.cashedOut
IsActiveBet(bet, u) == bet.userId = u /\ ~bet.cashedOut

\* this.currentGame.bets.find(...): index of the first match, 0 when none
FindBet(game, u) ==
    LET S == {i \in 1..Len(game.bets) : IsActiveBet(game.bets[i], u)}
    IN  IF S = {} THEN 0 ELSE CHOOSE i \in S : \A j \in S : i <= j

CryptoPayout(bet, m) == (bet.cryptoAmount * m) \div 100
UsdPayout(bet, m) == CryptoPayout(bet, m) * bet.priceAtTime
Profit(bet, m) == UsdPayout(bet, m) - bet.usdAmount

CanCashout_AnyStatus(gs, g, u) == g # 0 /\ FindBet(gs[g], u) # 0

\* The two checks that open processCashout; when one fails it throws.
CanCashout(gs, g, u) ==
    /\ g # 0
    /\ gs[g].status = "running"
    /\ FindBet(gs[g], u) # 0

CashoutError_StatusOnly(gs, g, u) == "Cannot cash out at this time"

\* The message of the error processCashout throws when a check fails: the
\* status check comes first.
CashoutError(gs, g, u) ==
    IF g = 0 \/ gs[g].status # "running"
       THEN "Cannot cash out at this time"
       ELSE "No active bet found"

\* `multiplier || this.currentGame.currentMultiplier`
CashoutMultiplier(gs, g, m) == IF m # 0 THEN m ELSE gs[g].currentMultiplier

\* processCashout from the bet update to `await User.findById`
MarkCashed(gs, g, b, m) ==
    LET bet == gs[g].bets[b]
    IN  [gs EXCEPT ![g].bets[b] = [bet EXCEPT !.cashedOut = TRUE, !.cashedOutAt = m,
                                              !.payout = UsdPayout(bet, m),
                                              !.profit = Profit(bet, m)]]

CashoutTask(gs, g, u, m, rest, isAuto) ==
    [Task("co_update") EXCEPT !.u = u, !.g = g, !.b = FindBet(gs[g], u),
                              !.m = CashoutMultiplier(gs, g, m),
                              !.rest = rest, !.isAuto = isAuto]

\* The for loop of checkAutoCashouts from its next iteration on, and the
\* multiplier_update broadcast that follows it in the interval callback.
\* processCashout that throws ends the loop (the catch is outside the for).
AutoLoop(gs, em, tk, rest, m) ==
    IF rest # <<>> /\ CanCashout(gs, currentGame, Head(rest))
       THEN /\ games' = MarkCashed(gs, currentGame, FindBet(gs[currentGame], Head(rest)), m)
            /\ tasks' = Add(tk, CashoutTask(gs, currentGame, Head(rest), m, Tail(rest), TRUE))
            /\ emitted' = em
       ELSE /\ games' = gs
            /\ tasks' = tk
            /\ emitted' = [em EXCEPT ![currentGame].multiplierUpdate = @ + 1,
                                     ![currentGame].lastMultiplier = m]

\* socket.on('cashout'): processCashout(user.id) up to its first await
Cashout(u) ==
    /\ cashReqs < MaxCashReqs
    /\ IF CanCashout(games, currentGame, u)
          THEN /\ games' = MarkCashed(games, currentGame, FindBet(games[currentGame], u),
                                      CashoutMultiplier(games, currentGame, 0))
               /\ tasks' = Add(tasks, CashoutTask(games, currentGame, u, 0, <<>>, FALSE))
               /\ cashReqs' = cashReqs + 1
               /\ reply' = NoReply
          ELSE /\ reply' = Reply(u, "error", CashoutError(games, currentGame, u))
               /\ UNCHANGED <<games, tasks, cashReqs>>
    /\ UNCHANGED <<aside, now, roundNumber, currentGame, multiplierInterval, intervals,
                   timers, dbUsers, emitted, betReqs>>

\* processCashout after `await User.findById` and `await user.updateOne`.
\* wallet.balance += cryptoPayout changes the loaded document only: the
\* document is never saved, and updateOne sends the $inc and nothing else.
CashoutUpdated ==
    \E t \in BagToSet(tasks) :
        /\ t.k = "co_update"
        /\ dbUsers' = [dbUsers EXCEPT ![t.u].totalBets = @ + 1,
                                      ![t.u].totalWins = @ + 1,
                                      ![t.u].totalProfit = @ + Profit(games[t.g].bets[t.b], t.m)]
        /\ tasks' = Add(Remove(tasks, t), [t EXCEPT !.k = "co_save"])
        /\ reply' = NoReply
        /\ UNCHANGED <<aside, now, roundNumber, currentGame, games, multiplierInterval, intervals,
                       timers, emitted, betReqs, cashReqs>>

\* processCashout after `await this.currentGame.save()`: emit player_cashout
\* and return; an auto-cashout returns into the loop of checkAutoCashouts.
CashoutSaved ==
    \E t \in BagToSet(tasks) :
        /\ t.k = "co_save"
        /\ IF t.isAuto
              THEN AutoLoop(games, Emit(emitted, currentGame, "playerCashout"),
                            Remove(tasks, t), t.rest, t.m)
              ELSE /\ emitted' = Emit(emitted, currentGame, "playerCashout")
                   /\ tasks' = Remove(tasks, t)
                   /\ UNCHANGED games
        /\ reply' = IF t.isAuto THEN NoReply ELSE Reply(t.u, "cashout_success", "none")
        /\ UNCHANGED <<aside, now, roundNumber, currentGame, multiplierInterval, intervals,
                       timers, dbUsers, betReqs, cashReqs>>

\* --------------------------------------------------------------- crashGame
\* crashGame up to its first await: clearInterval, mark the round crashed,
\* filter the losing bets and start on the first of them.
CrashGame(tk) ==
    LET g == currentGame
        gs == [games EXCEPT ![g].status = "crashed",
                            ![g].currentMultiplier = games[g].crashPoint]
        losingBets == SelectSeq(Indices(games[g].bets),
                                LAMBDA i : ~games[g].bets[i].cashedOut)
    IN  IF losingBets = <<>>
           THEN /\ games' = gs
                /\ tasks' = Add(tk, Task("cr_save"))
           ELSE /\ games' = [gs EXCEPT ![g].bets[Head(losingBets)].profit =
                                        -games[g].bets[Head(losingBets)].usdAmount]
                /\ tasks' = Add(tk, [Task("cr_settle") EXCEPT !.g = g, !.b = Head(losingBets),
                                                              !.rest = Tail(losingBets)])

\* crashGame after `await User.findByIdAndUpdate` for one losing bet: the
\* $inc has been applied; go on to the next losing bet or to the save.
CrashSettled ==
    \E t \in BagToSet(tasks) :
        /\ t.k = "cr_settle"
        /\ dbUsers' = [dbUsers EXCEPT
                          ![games[t.g].bets[t.b].userId].totalBets = @ + 1,
                          ![games[t.g].bets[t.b].userId].totalProfit =
                                @ - games[t.g].bets[t.b].usdAmount]
        /\ IF t.rest = <<>>
              THEN /\ tasks' = Add(Remove(tasks, t), Task("cr_save"))
                   /\ UNCHANGED games
              ELSE /\ games' = [games EXCEPT ![t.g].bets[Head(t.rest)].profit =
                                           -games[t.g].bets[Head(t.rest)].usdAmount]
                   /\ tasks' = Add(Remove(tasks, t),
                                   [t EXCEPT !.b = Head(t.rest), !.rest = Tail(t.rest)])
        /\ reply' = NoReply
        /\ UNCHANGED <<aside, now, roundNumber, currentGame, multiplierInterval, intervals,
                       timers, emitted, betReqs, cashReqs>>

\* crashGame after `await this.currentGame.save()`: emit game_crashed for
\* whatever this.currentGame is now, arm the 5 s timer.
CrashSaved ==
    \E t \in BagToSet(tasks) :
        /\ t.k = "cr_save"
        /\ tasks' = Remove(tasks, t)
        /\ emitted' = [Emit(emitted, currentGame, "gameCrashed") EXCEPT
                           ![currentGame].lastGameCrashed = GameCrashedMsg(currentGame)]
        /\ timers' = Add(timers, Timer("post", PostCrashSecs))
        /\ reply' = NoReply
        /\ UNCHANGED <<aside, now, roundNumber, currentGame, games, multiplierInterval, intervals,
                       dbUsers, betReqs, cashReqs>>

\* -------------------------------------------------- startMultiplierUpdates
Multiplier_Falling(elapsed) == 100 - elapsed \div GrowthSecs

\* Math.floor(Math.pow(Math.E, 0.00006 * elapsed) * 100) / 100, as a step
\* function of the elapsed seconds: 1.00 at 0 and nondecreasing.
Multiplier(elapsed) == 100 + elapsed \div GrowthSecs

\* The bets checkAutoCashouts selects, as the userIds it passes on.
ActiveBets(game, m) ==
    LET sel == SelectSeq(Indices(game.bets),
                         LAMBDA i : /\ ~game.bets[i].cashedOut
                                    /\ game.bets[i].autoCashOut # 0
                                    /\ m >= game.bets[i].autoCashOut)
    IN  [k \in 1..Len(sel) |-> game.bets[sel[k]].userId]

\* One firing of the callback of setInterval, up to its first await.  An
\* interval keeps firing until clearInterval is called on its own handle.
Tick ==
    \E i \in 1..Len(intervals) :
        LET iv == intervals[i]
            m == Multiplier(now - iv.startTime)
        IN  /\ iv.active /\ iv.next = now
            /\ IF m >= iv.crashPoint
                  THEN /\ CrashGame(tasks)
                       /\ intervals' = [intervals EXCEPT ![i].next = now + TickSecs,
                                                         ![multiplierInterval].active = FALSE]
                       /\ UNCHANGED emitted
                  ELSE /\ AutoLoop([games EXCEPT ![currentGame].currentMultiplier = m],
                                   emitted, tasks,
                                   ActiveBets(games[currentGame], m), m)
                       /\ intervals' = [intervals EXCEPT ![i].next = now + TickSecs]
            /\ reply' = NoReply
            /\ UNCHANGED <<aside, now, roundNumber, currentGame, multiplierInterval,
                           timers, dbUsers, betReqs, cashReqs>>

\* ---------------------------------------------------------------- placeBet
\* The validation that opens the place_bet handler: the message of the
\* error event it answers with, "none" when the request passes.  A value
\* that is 0 or left out is falsy.
Falsy(v) == v = 0 \/ v = Null

ValidationError_NoUpperLimit(usd, cur, aco) ==
    IF Falsy(usd) \/ usd < MinBet
       THEN "Invalid bet amount"
       ELSE IF cur \notin SupportedCurrencies
               THEN "Invalid currency"
               ELSE IF ~Falsy(aco) /\ (aco < MinAutoCashOut \/ aco > MaxAutoCashOut)
                       THEN "Invalid auto cashout value"
                       ELSE "none"

ValidationError(usd, cur, aco) ==
    IF Falsy(usd) \/ usd < MinBet \/ usd > MaxBet
       THEN "Invalid bet amount"
       ELSE IF cur \notin SupportedCurrencies
               THEN "Invalid currency"
               ELSE IF ~Falsy(aco) /\ (aco < MinAutoCashOut \/ aco > MaxAutoCashOut)
                       THEN "Invalid auto cashout value"
                       ELSE "none"

\* socket.on('place_bet'): the validation, then placeBet up to
\* `await User.findById`
PlaceBet(u, usd, cur, aco) ==
    /\ betReqs < MaxBetReqs
    /\ IF ValidationError(usd, cur, aco) # "none"
          THEN /\ reply' = Reply(u, "error", ValidationError(usd, cur, aco))
               /\ UNCHANGED <<tasks, betReqs>>
          ELSE IF currentGame # 0 /\ games[currentGame].status = "waiting"
                  THEN /\ tasks' = Add(tasks, [Task("pb_find") EXCEPT !.u = u, !.usd = usd,
                                                                      !.cur = cur, !.aco = aco])
                       /\ betReqs' = betReqs + 1
                       /\ reply' = NoReply
                  ELSE /\ reply' = Reply(u, "error", "Cannot place bet at this time")
                       /\ UNCHANGED <<tasks, betReqs>>
    /\ UNCHANGED <<aside, now, roundNumber, currentGame, games, multiplierInterval, intervals,
                   timers, dbUsers, emitted, cashReqs>>

\* User.findById resolves with the document as stored now.
PlaceBetUserFound ==
    \E t \in BagToSet(tasks) :
        /\ t.k = "pb_find"
        /\ tasks' = Add(Remove(tasks, t),
                        [t EXCEPT !.k = "pb_price",
                                  !.bal = IF t.cur \in DOMAIN dbUsers[t.u].wallets
                                             THEN dbUsers[t.u].wallets[t.cur]
                                             ELSE NoWallet])
        /\ reply' = NoReply
        /\ UNCHANGED <<aside, now, roundNumber, currentGame, games, multiplierInterval, intervals,
                       timers, dbUsers, emitted, betReqs, cashReqs>>

\* CryptoService.getPrice resolves: balance check on the loaded document,
\* push the bet on this.currentGame, debit the loaded document, user.save().
PlaceBetPriced ==
    \E t \in BagToSet(tasks), cryptoPrice \in Prices :
        LET cryptoAmount == t.usd \div cryptoPrice
        IN  /\ t.k = "pb_price"
            /\ IF t.bal = NoWallet \/ t.bal < cryptoAmount
                  THEN /\ tasks' = Remove(tasks, t)
                       /\ reply' = Reply(t.u, "error", "Insufficient balance")
                       /\ UNCHANGED games
                  ELSE /\ games' = [games EXCEPT
                              ![currentGame].bets =
                                  Append(@, NewBet(t.u, t.usd, cryptoAmount, t.cur,
                                                   cryptoPrice, t.aco)),
                              ![currentGame].totalBets = @ + t.usd]
                       /\ tasks' = Add(Remove(tasks, t),
                                       [t EXCEPT !.k = "pb_usersave",
                                                 !.bal = t.bal - cryptoAmount])
                       /\ reply' = NoReply
            /\ UNCHANGED <<aside, now, roundNumber, currentGame, multiplierInterval, intervals,
                           timers, dbUsers, emitted, betReqs, cashReqs>>

\* user.save() resolves: the wallet balance of the loaded document is stored.
PlaceBetUserSaved ==
    \E t \in BagToSet(tasks) :
        /\ t.k = "pb_usersave"
        /\ dbUsers' = [dbUsers EXCEPT ![t.u].wallets[t.cur] = t.bal]
        /\ tasks' = Add(Remove(tasks, t), [t EXCEPT !.k = "pb_gamesave"])
        /\ reply' = NoReply
        /\ UNCHANGED <<aside, now, roundNumber, currentGame, games, multiplierInterval, intervals,
                       timers, emitted, betReqs, cashReqs>>

\* this.currentGame.save() resolves: emit bet_placed, return.
PlaceBetGameSaved ==
    \E t \in BagToSet(tasks) :
        /\ t.k = "pb_gamesave"
        /\ tasks' = Remove(tasks, t)
        /\ emitted' = Emit(emitted, currentGame, "betPlaced")
        /\ reply' = Reply(t.u, "bet_placed_success", "none")
        /\ UNCHANGED <<aside, now, roundNumber, currentGame, games, multiplierInterval, intervals,
                       timers, dbUsers, betReqs, cashReqs>>

\* ------------------------------------------------------------------ clock
\* Time passes when nothing is due: every timer and interval fires at its
\* time, and an awaited store or quote call answers within the second it was
\* made in (in any order with everything else that happens in that second).
Tock(limit) ==
    /\ now < limit
    /\ \A tm \in BagToSet(timers) : tm.at > now
    /\ \A i \in 1..Len(intervals) : intervals[i].active => intervals[i].next > now
    /\ tasks = EmptyBag
    /\ now' = now + 1
    /\ reply' = NoReply
    /\ UNCHANGED <<aside, roundNumber, currentGame, games, multiplierInterval, intervals,
                   timers, tasks, dbUsers, emitted, betReqs, cashReqs>>

Advance == Tock(MaxTime)

\* What the engine does by itself: timers and intervals firing, awaited
\* calls resolving, time passing.
EngineStep ==
    \/ StartNewRoundSaved
    \/ StartNewRound
    \/ ScheduleNextRound
    \/ StartGame
    \/ StartGameSaved
    \/ Tick
    \/ CrashSettled
    \/ CrashSaved
    \/ PlaceBetUserFound
    \/ PlaceBetPriced
    \/ PlaceBetUserSaved
    \/ PlaceBetGameSaved
    \/ CashoutUpdated
    \/ CashoutSaved
    \/ Advance

\* What clients do: the engine calls the socket handlers make.
ClientStep ==
    \/ \E u \in Users, usd \in UsdAmounts, cur \in Currencies, aco \in AutoCashOuts :
          PlaceBet(u, usd, cur, aco)
    \/ \E u \in Users : Cashout(u)

Next == EngineStep \/ ClientStep

Spec == Init /\ [][Next]_vars

\* The event loop runs every callback that is due and every continuation
\* whose call has resolved; clients are not bound to send anything.
FairSpec == Spec /\ WF_vars(EngineStep)

\* ------------------------------------------------------- the engine alone
\* The engine while no client sends place_bet or cashout, followed over a
\* longer time under one way the event loop can order what falls due in the
\* same second: an awaited store call answers before the next callback runs,
\* and the setTimeout callbacks run in the order scheduleNextRound,
\* startNewRound, startGame.  The callbacks of the intervals fall anywhere
\* among them.
Due(kind) == \E tm \in BagToSet(timers) : tm.kind = kind /\ tm.at = now

IdleAdvance == Tock(IdleMaxTime)

IdleNext ==
    \/ StartNewRoundSaved
    \/ StartGameSaved
    \/ CrashSaved
    \/ tasks = EmptyBag /\ ScheduleNextRound
    \/ tasks = EmptyBag /\ ~Due("post") /\ StartNewRound
    \/ tasks = EmptyBag /\ ~Due("post") /\ ~Due("gap") /\ StartGame
    \/ tasks = EmptyBag /\ Tick
    \/ IdleAdvance

IdleSpec == Init /\ [][IdleNext]_vars

\* ------------------------------------------------- provablyFair on its own
\* The static functions of ProvablyFair applied to every seed and round
\* number of the bounds; the engine does not run.
engineVars == <<now, roundNumber, currentGame, games, multiplierInterval, intervals,
                timers, tasks, dbUsers, emitted, betReqs, cashReqs, reply,
                conn, faults, quotes>>

ProofInit ==
    /\ \E s \in Seeds : games = <<NewGame(1, s)>>
    /\ now = 0 /\ roundNumber = 1 /\ currentGame = 1
    /\ multiplierInterval = 0 /\ intervals = <<>>
    /\ timers = EmptyBag
    /\ tasks = SetToBag({[Task("snr_save") EXCEPT !.init = TRUE]})
    /\ dbUsers = [u \in Users |-> NewUser]
    /\ emitted = <<NoEmits>>
    /\ betReqs = 0 /\ cashReqs = 0 /\ reply = NoReply
    /\ conn = NoConn /\ faults = <<>> /\ quotes = NoQuotes
    /\ \E seed \in AllSeeds, rn \in 1..MaxRoundNumber :
          pf = [op |-> "input", seed |-> seed, rn |-> rn]

\* generateRoundData(rn) when generateSeed() returns pf.seed
CallGenerateRoundData ==
    /\ pf.op = "input"
    /\ pf' = [op |-> "generated", seed |-> pf.seed, rn |-> pf.rn,
              x |-> HashInt(pf.seed, pf.rn),
              data |-> GenerateRoundData(pf.seed, pf.rn)]
    /\ UNCHANGED engineVars

\* validateProof on what generateRoundData returned, as it is or with the
\* hash or the crash point replaced.  A claimed crash point exactly 0.01 off
\* is left out: for it the comparison with 0.01 hangs on binary rounding.
CallValidateProof ==
    /\ pf.op = "generated"
    /\ \E hash \in {pf.data.hash, CreateHash((pf.seed + 1) % 2^HashBits)},
          crashPoint \in {pf.data.crashPoint, pf.data.crashPoint + 2} :
          pf' = [op |-> "validated", seed |-> pf.seed, rn |-> pf.rn, x |-> pf.x,
                 data |-> pf.data, hash |-> hash, crashPoint |-> crashPoint,
                 result |-> ValidateProof(pf.seed, hash, pf.rn, crashPoint)]
    /\ UNCHANGED engineVars

ProofNext == CallGenerateRoundData \/ CallValidateProof

ProofSpec == ProofInit /\ [][ProofNext]_vars

\* ------------------------------------------------- one client's requests
\* The payloads of place_bet, from one connection: amounts, currencies and
\* auto-cashout values on both sides of every limit the handler tests, a
\* field left out, a currency the user has no wallet for.
GatewayUsdAmounts == {MinBet - 1, MinBet, MaxBet, MaxBet + 1}
GatewayCurrencies == {"BTC", "ETH", "XRP"}
GatewayUsers == {"u1"}
GatewayAutoCashOuts == {Null, 0, 100, MinAutoCashOut, MaxAutoCashOut + 1}

\* The payloads among them that the validation of the handler lets through.
ValidUsdAmounts == {MinBet, MaxBet}
ValidCurrencies == {"BTC", "ETH"}
ValidAutoCashOuts == {Null, MinAutoCashOut}

\* The first rounds of the engine, up to the crash of the second, with one
\* client whose requests pass the validation: bets small enough for the
\* wallet to cover several of them, bets too large for it, bets in a
\* currency without wallet.  The clock stops before the first timer armed
\* by crashGame is due, so scheduleNextRound has nothing to run on.

GatewayAdvance == Tock(GatewayMaxTime)

GatewayNext ==
    \/ StartNewRoundSaved
    \/ StartNewRound
    \/ StartGame
    \/ StartGameSaved
    \/ Tick
    \/ CashoutUpdated
    \/ CashoutSaved
    \/ CrashSettled
    \/ CrashSaved
    \/ PlaceBetUserFound
    \/ PlaceBetPriced
    \/ PlaceBetUserSaved
    \/ PlaceBetGameSaved
    \/ GatewayAdvance
    \/ \E u \in GatewayUsers, usd \in ValidUsdAmounts, cur \in ValidCurrencies,
          aco \in ValidAutoCashOuts : PlaceBet(u, usd, cur, aco)
    \/ \E u \in GatewayUsers : Cashout(u)

GatewaySpec == Init /\ [][GatewayNext]_vars

\* The first waiting rounds with one client that sends place_bet with any
\* payload: every request meets the validation of its handler and a round
\* that takes bets.
ValidationAdvance == Tock(ValidationMaxTime)

ValidationNext ==
    \/ StartNewRoundSaved
    \/ StartNewRound
    \/ PlaceBetUserFound
    \/ PlaceBetPriced
    \/ PlaceBetUserSaved
    \/ PlaceBetGameSaved
    \/ ValidationAdvance
    \/ \E u \in GatewayUsers, usd \in GatewayUsdAmounts, cur \in GatewayCurrencies,
          aco \in GatewayAutoCashOuts : PlaceBet(u, usd, cur, aco)

ValidationSpec == Init /\ [][ValidationNext]_vars

\* ------------------------------------------------- failing store calls
\* `await this.currentGame.save()` of startGame rejects: the catch of
\* startGame logs the error and the method returns.  The status has been
\* set to 'running' on the document in memory before the call.
StartGameSaveFailed ==
    \E t \in BagToSet(tasks) :
        /\ t.k = "sg_save"
        /\ Len(faults) < MaxFaults
        /\ tasks' = Remove(tasks, t)
        /\ faults' = Append(faults, [op |-> "startGame", g |-> currentGame])
        /\ reply' = NoReply
        /\ UNCHANGED <<now, roundNumber, currentGame, games, multiplierInterval, intervals,
                       timers, dbUsers, emitted, betReqs, cashReqs, pf, conn, quotes>>

\* `await User.findByIdAndUpdate(...)` or `await this.currentGame.save()` of
\* crashGame rejects: the catch of crashGame logs the error and the method
\* returns, past the emit of game_crashed and the setTimeout for the next round.
CrashStoreFailed ==
    \E t \in BagToSet(tasks) :
        /\ t.k \in {"cr_settle", "cr_save"}
        /\ Len(faults) < MaxFaults
        /\ tasks' = Remove(tasks, t)
        /\ faults' = Append(faults, [op |-> "crashGame", g |-> currentGame])
        /\ reply' = NoReply
        /\ UNCHANGED <<now, roundNumber, currentGame, games, multiplierInterval, intervals,
                       timers, dbUsers, emitted, betReqs, cashReqs, pf, conn, quotes>>

FaultAdvance == Tock(FaultMaxTime)

\* The engine with no client, and a store that may fail under startGame and
\* crashGame.
FaultNext ==
    \/ StartNewRoundSaved
    \/ StartNewRound
    \/ ScheduleNextRound
    \/ StartGame
    \/ StartGameSaved
    \/ StartGameSaveFailed
    \/ Tick
    \/ CrashSaved
    \/ CrashStoreFailed
    \/ FaultAdvance

FaultSpec == Init /\ [][FaultNext]_vars

\* ----------------------------------------------- CryptoService.getPrice
\* Prices of CryptoService are tenths of a dollar: 5 is $0.5.  (The engine
\* above takes the price of a bet from Prices, whatever getPrice does.)
QuoteCurrencies == {"BTC", "ADA"}
SourcePrices == {30, 40}

\* What axios.get can end in: a rejected promise (network error, timeout,
\* status code), a response without a price for the coin (usd 0 is the
\* missing or zero price, which `!price` rejects), a response with a price.
SourceOutcomes ==
    {[ok |-> FALSE, usd |-> 0]} \cup {[ok |-> TRUE, usd |-> p] : p \in {0} \cup SourcePrices}

\* fallbackPrices
FallbackPrices == [BTC |-> 450000, ETH |-> 30000, LTC |-> 1000, ADA |-> 5, DOT |-> 70]

\* cached && (Date.now() - cached.timestamp) < this.cacheTimeout
Fresh(entry, t) == entry.price # 0 /\ t - entry.timestamp < CacheSecs

FailedPrice_FallbackOnly(cache, cur) == FallbackPrices[cur]

\* The catch of getPrice: the cached price if the cache holds one, however
\* old, else the fallback price of the currency.
FailedPrice(cache, cur) ==
    IF cache[cur].price # 0 THEN cache[cur].price ELSE FallbackPrices[cur]

\* getPrice(cur) up to its await: a fresh cached price is returned, else
\* the request to the source is sent.
GetPrice(cur) ==
    /\ cur \notin quotes.pending
    /\ IF Fresh(quotes.cache[cur], now)
          THEN quotes' = [quotes EXCEPT !.last = [cur |-> cur, fetched |-> FALSE,
                                                  price |-> quotes.cache[cur].price]]
          ELSE quotes' = [quotes EXCEPT !.pending = @ \cup {cur}]
    /\ UNCHANGED <<roundVars, reply, pf, conn, faults>>

\* getPrice(cur) after `await axios.get(...)`: a price is cached with the
\* time and returned; anything else ends in the catch.
FetchResolved(cur, out) ==
    /\ cur \in quotes.pending
    /\ IF out.ok /\ out.usd # 0
          THEN quotes' = [cache |-> [quotes.cache EXCEPT
                                        ![cur] = [price |-> out.usd, timestamp |-> now]],
                          pending |-> quotes.pending \ {cur},
                          last |-> [cur |-> cur, fetched |-> TRUE, price |-> out.usd]]
          ELSE quotes' = [cache |-> quotes.cache,
                          pending |-> quotes.pending \ {cur},
                          last |-> [cur |-> cur, fetched |-> TRUE,
                                    price |-> FailedPrice(quotes.cache, cur)]]
    /\ UNCHANGED <<roundVars, reply, pf, conn, faults>>

\* Time passes between two calls; a request to the source is answered (or
\* times out, after 5 s) before the next look.
QuoteTock ==
    /\ quotes.pending = {}
    /\ now + QuoteStep <= QuoteMaxTime
    /\ now' = now + QuoteStep
    /\ UNCHANGED <<roundNumber, currentGame, games, multiplierInterval, intervals,
                   timers, tasks, dbUsers, emitted, betReqs, cashReqs,
                   reply, pf, conn, faults, quotes>>

QuoteNext ==
    \/ \E cur \in QuoteCurrencies : GetPrice(cur)
    \/ \E cur \in QuoteCurrencies, out \in SourceOutcomes : FetchResolved(cur, out)
    \/ QuoteTock

\* CryptoService on its own: callers ask for prices as time passes.
QuoteSpec == Init /\ [][QuoteNext]_vars

\* ------------------------------------------------------ one connection
\* The function given to io.use in setupMiddleware.  It runs when a socket
\* connects, on the socket object of that connection, which has no
\* rateLimiter yet: it drops the times older than a minute, refuses the
\* connection when 100 or more are left, and else records the time and lets
\* the connection through.
Connect ==
    /\ ~conn.open
    /\ LET recent == SelectSeq(<<>>, LAMBDA time : now - time < WindowSecs)
       IN  IF Len(recent) >= RateLimit
              THEN /\ reply' = Reply("u1", "connect_error", "Rate limit exceeded")
                   /\ UNCHANGED conn
              ELSE /\ conn' = [open |-> TRUE, requests |-> Append(recent, now), ops |-> 0]
                   /\ reply' = NoReply
    /\ UNCHANGED <<roundVars, pf, faults, quotes>>

\* socket.on('ping'): the handler runs and answers 'pong'.  No code runs
\* between the arrival of an event and its handler.
Ping ==
    /\ conn.open
    /\ conn.ops < MaxOps
    /\ conn' = [conn EXCEPT !.ops = @ + 1]
    /\ reply' = Reply("u1", "pong", "none")
    /\ UNCHANGED <<roundVars, pf, faults, quotes>>

\* socket.on('disconnect')
Disconnect ==
    /\ conn.open
    /\ conn' = NoConn
    /\ reply' = NoReply
    /\ UNCHANGED <<roundVars, pf, faults, quotes>>

ConnNext == Connect \/ Ping \/ Disconnect

\* One client that connects and sends events, all within the same second.
ConnSpec == Init /\ [][ConnNext]_vars

\* ---------------------------------------------------------- game history
\* The games collection as a get_game_history request can find it: the
\* documents of earlier runs of the process are in it too, so it can hold
\* any number of rounds in any status.  A store is the sequence of the
\* statuses of its documents in creation order.
MaxStore == 3
BigStore == 201
DefaultLimit == 50
Statuses == {"waiting", "running", "crashed"}

RECURSIVE StoresOfLen(_)
StoresOfLen(n) ==
    IF n = 0 THEN {<<>>}
    ELSE {Append(st, status) : st \in StoresOfLen(n - 1), status \in Statuses}

HistoryStores ==
    UNION {StoresOfLen(n) : n \in 0..MaxStore}
    \cup {[i \in 1..BigStore |-> IF i = k THEN "running" ELSE "crashed"] :
             k \in {0, 1, BigStore}}

\* The limits a client sends; Null is a payload without the field.
HistoryLimits == {Null, 1, 2, MaxStore, BigStore}

HistoryInit ==
    /\ \E st \in HistoryStores, seed \in Seeds :
          games = [g \in 1..Len(st) |-> [NewGame(g, seed) EXCEPT !.status = st[g]]]
    /\ now = 0 /\ roundNumber = Len(games) /\ currentGame = 0
    /\ multiplierInterval = 0 /\ intervals = <<>>
    /\ timers = EmptyBag /\ tasks = EmptyBag
    /\ dbUsers = [u \in Users |-> NewUser]
    /\ emitted = [g \in 1..Len(games) |-> NoEmits]
    /\ betReqs = 0 /\ cashReqs = 0 /\ pf = NoProof /\ reply = NoReply
    /\ conn = NoConn /\ faults = <<>> /\ quotes = NoQuotes

\* Game.find({status: 'crashed'}).sort({createdAt: -1}).limit(limit)
\*     .select('roundId crashPoint createdAt crashedAt totalBets bets')
\* for a positive limit.  Documents are created in the order of `games`, so
\* createdAt descending is that order reversed; createdAt and roundId are
\* both the document's place in `games`.
GetGameHistory(limit) ==
    LET newestFirst == [i \in 1..Len(games) |-> Len(games) + 1 - i]
        found == SelectSeq(newestFirst, LAMBDA g : games[g].status = "crashed")
        taken == SubSeq(found, 1, IF limit < Len(found) THEN limit ELSE Len(found))
    IN  [i \in 1..Len(taken) |->
            [roundId |-> taken[i], crashPoint |-> games[taken[i]].crashPoint,
             createdAt |-> taken[i], totalBets |-> games[taken[i]].totalBets,
             bets |-> games[taken[i]].bets]]

\* socket.on('get_game_history') for a payload {limit} or {}: the reply
\* records, next to the entries sent, the limit the payload carried.
OnGetGameHistory(u, asked) ==
    /\ LET limit == IF asked = Null THEN DefaultLimit ELSE asked
       IN  reply' = [to |-> u, ev |-> "game_history", message |-> GetGameHistory(limit),
                     limit |-> asked]
    /\ UNCHANGED <<roundVars, aside>>

HistoryNext == \E u \in GatewayUsers, asked \in HistoryLimits : OnGetGameHistory(u, asked)

\* Requests for the history of a store that no engine is writing to.
HistorySpec == HistoryInit /\ [][HistoryNext]_vars

\* -------------------------------------------------- the auto-cashout pass
\* checkAutoCashouts called on its own: a running round that holds up to
\* MaxBetReqs accepted bets, and the part of the interval callback that
\* follows the crash test, called with every multiplier of TickMultipliers.
\* The callback itself reaches that part with 1.00 only.
HighAutoCashOut == 150
MaxPasses == 2
BetThresholds == {Null, MinAutoCashOut, HighAutoCashOut}
TickMultipliers == {MinAutoCashOut, HighAutoCashOut}

\* The bets of a round after placeBet has accepted each payload of `reqs`.
RECURSIVE AcceptedBets(_)
AcceptedBets(reqs) ==
    IF reqs = <<>> THEN <<>>
    ELSE Append(AcceptedBets(SubSeq(reqs, 1, Len(reqs) - 1)),
                LET r == reqs[Len(reqs)]
                IN  NewBet(r.u, MinBet, MinBet \div 2, "BTC", 2, r.aco))

BetRequests ==
    UNION {[1..n -> [u : Users, aco : BetThresholds]] : n \in 0..MaxBetReqs}

AutoInit ==
    /\ \E reqs \in BetRequests, seed \in Seeds :
          /\ games = <<[NewGame(1, seed) EXCEPT
                           !.status = "running",
                           !.bets = AcceptedBets(reqs),
                           !.totalBets = MinBet * Len(reqs)]>>
          /\ dbUsers = [u \in Users |->
                           [NewUser EXCEPT !.wallets["BTC"] =
                               @ - (MinBet \div 2)
                                   * Cardinality({i \in 1..Len(reqs) : reqs[i].u = u})]]
    /\ now = 0 /\ roundNumber = 1 /\ currentGame = 1
    /\ multiplierInterval = 0 /\ intervals = <<>>
    /\ timers = EmptyBag /\ tasks = EmptyBag
    /\ emitted = <<NoEmits>>
    /\ betReqs = 0 /\ cashReqs = 0 /\ pf = NoProof /\ reply = NoReply
    /\ conn = NoConn /\ faults = <<>> /\ quotes = NoQuotes

\* The interval callback after its crash test, for currentMultiplier = m:
\* store m in the round, await checkAutoCashouts(m), emit multiplier_update.
TickBelowCrash(m) ==
    /\ tasks = EmptyBag
    /\ emitted[currentGame].multiplierUpdate < MaxPasses
    /\ AutoLoop([games EXCEPT ![currentGame].currentMultiplier = m], emitted, tasks,
                ActiveBets(games[currentGame], m), m)
    /\ reply' = NoReply
    /\ UNCHANGED <<aside, now, roundNumber, currentGame, multiplierInterval, intervals,
                   timers, dbUsers, betReqs, cashReqs>>

AutoNext ==
    \/ \E m \in TickMultipliers : TickBelowCrash(m)
    \/ CashoutUpdated
    \/ CashoutSaved

AutoSpec == AutoInit /\ [][AutoNext]_vars

\* ================================================================ claims
Games == 1..Len(games)
BetsOf(g) == 1..Len(games[g].bets)
AllBets == {<<g, b>> \in Games \X (1..MaxBetReqs) : b \in BetsOf(g)}
BetAt(r) == games[r[1]].bets[r[2]]

\* The sum of field f over the bets in S.
RECURSIVE SumOver(_, _)
SumOver(S, f) ==
    IF S = {} THEN 0
    ELSE LET x == CHOOSE y \in S : TRUE IN BetAt(x)[f] + SumOver(S \ {x}, f)

\* No placeBet or processCashout of user u is between two of its awaits.
Quiet(u) == \A t \in BagToSet(tasks) : t.u # u

\* C1: the store write of an accepted cashout of a bet at multiplier m raises
\* the stored wallet balance of the bet's currency by exactly cryptoAmount * m.
C1_CashoutCredits ==
    [][\A t \in BagToSet(tasks) :
          (t.k = "co_update" /\ dbUsers'[t.u].totalWins = dbUsers[t.u].totalWins + 1)
          => LET bet == games[t.g].bets[t.b]
             IN  dbUsers'[t.u].wallets[bet.currency] =
                    dbUsers[t.u].wallets[bet.currency] + CryptoPayout(bet, t.m)]_vars

\* C2: whenever no bet of a user is being processed, the stored balance is the
\* starting balance less cryptoAmount for each accepted bet, and the stakes of
\* the accepted bets do not exceed what the wallet held.
C2_DebitPerBet ==
    \A u \in Users, c \in Currencies :
        LET mine == {r \in AllBets : BetAt(r).userId = u /\ BetAt(r).currency = c}
        IN  Quiet(u) => /\ dbUsers[u].wallets[c] = InitBalance - SumOver(mine, "cryptoAmount")
                        /\ SumOver(mine, "cryptoAmount") <= InitBalance

\* C3: a bet is appended to a round's bet list only while the round is WAITING.
C3_BetsOnlyWhileWaiting ==
    [][\A g \in Games :
          Len(games'[g].bets) > Len(games[g].bets) => games[g].status = "waiting"]_vars

\* C4: a bet is cashed out at most once (once cashed it stays cashed with the
\* same cashedOutAt and payout, and a user's recorded wins never exceed the
\* user's cashed bets), and only in a step that finds its round RUNNING.
C4_CashedOutOnce ==
    /\ [](\A u \in Users :
            dbUsers[u].totalWins <=
                Cardinality({r \in AllBets : BetAt(r).userId = u /\ BetAt(r).cashedOut}))
    /\ [][\A r \in AllBets :
            LET bet == BetAt(r)
                bet2 == games'[r[1]].bets[r[2]]
            IN  /\ bet.cashedOut =>
                      /\ bet2.cashedOut
                      /\ bet2.cashedOutAt = bet.cashedOutAt
                      /\ bet2.payout = bet.payout
                /\ (~bet.cashedOut /\ bet2.cashedOut) =>
                      /\ games[r[1]].status = "running"
                      /\ games'[r[1]].status = "running"]_vars

\* C4 witness: a bet was cashed out and its round has crashed since.
C4_Witness ==
    \E r \in AllBets : BetAt(r).cashedOut /\ games[r[1]].status = "crashed"

\* C5: in a crashed round every bet with autoCashOut <= crashPoint has been
\* cashed out, at a multiplier between its autoCashOut and the crashPoint.
C5_AutoCashoutWins ==
    \A r \in AllBets :
        LET bet == BetAt(r)
            game == games[r[1]]
        IN  (game.status = "crashed" /\ bet.autoCashOut # 0
                                     /\ bet.autoCashOut <= game.crashPoint)
            => /\ bet.cashedOut
               /\ bet.autoCashOut <= bet.cashedOutAt
               /\ bet.cashedOutAt <= game.crashPoint

\* C6: with no settlement under way, a user's totalBets is the number of the
\* user's settled bets (cashed out, or lost in a crashed round), totalWins the
\* number of cashed-out ones and totalProfit the sum of their profits.
C6_StatsOncePerBet ==
    tasks = EmptyBag =>
        \A u \in Users :
            LET settled == {r \in AllBets : /\ BetAt(r).userId = u
                                            /\ \/ BetAt(r).cashedOut
                                               \/ games[r[1]].status = "crashed"}
                won == {r \in settled : BetAt(r).cashedOut}
            IN  /\ dbUsers[u].totalBets = Cardinality(settled)
                /\ dbUsers[u].totalWins = Cardinality(won)
                /\ dbUsers[u].totalProfit = SumOver(settled, "profit")

\* C7: game_crashed is emitted at most once for a round, and only for a round
\* that was started.
C7_CrashOncePerRound ==
    \A g \in Games : /\ emitted[g].gameCrashed <= 1
                     /\ emitted[g].gameCrashed = 1 => emitted[g].gameStarted >= 1

\* C8: the current round is replaced only when there is none or it is CRASHED.
C8_SequentialRounds ==
    [][currentGame' # currentGame =>
          \/ currentGame = 0
          \/ games[currentGame].status = "crashed"]_vars

\* C9: a round's status moves only WAITING -> RUNNING -> CRASHED, and
\* game_started is emitted at most once for a round.
C9_StatusLifecycle ==
    /\ [](\A g \in Games : emitted[g].gameStarted <= 1)
    /\ [][\A g \in Games :
            games'[g].status # games[g].status =>
                \/ games[g].status = "waiting" /\ games'[g].status = "running"
                \/ games[g].status = "running" /\ games'[g].status = "crashed"]_vars

\* C10: every round that is created, the first one included, eventually
\* leaves WAITING (becomes RUNNING).
C10_RoundsProgress ==
    \A i \in 1..2 :
        (Len(games) >= i /\ games[i].status = "waiting")
            ~> (Len(games) >= i /\ games[i].status # "waiting")

\* C11: a RUNNING round's currentMultiplier is at most its crashPoint; the
\* step that makes a round CRASHED sets its currentMultiplier to crashPoint;
\* and from then on it stays there (the stored multiplier reaches crashPoint
\* in no other way: a tick stores only multipliers below it).
C11_MultiplierUpToCrashPoint ==
    /\ [](\A g \in Games :
            games[g].status = "running" =>
                games[g].currentMultiplier <= games[g].crashPoint)
    /\ [][\A g \in Games :
            /\ (games[g].status # "crashed" /\ games'[g].status = "crashed")
                   => games'[g].currentMultiplier = games[g].crashPoint
            /\ games[g].currentMultiplier = games[g].crashPoint
                   => games'[g].currentMultiplier = games[g].crashPoint]_vars

\* C12: a round enters RUNNING with currentMultiplier 1.00, and no step that
\* leaves it RUNNING lowers its currentMultiplier.
C12_MultiplierNeverDecreases ==
    [][\A g \in Games :
          /\ (games[g].status # "running" /\ games'[g].status = "running")
                 => games'[g].currentMultiplier = 100
          /\ (games[g].status = "running" /\ games'[g].status = "running")
                 => games'[g].currentMultiplier >= games[g].currentMultiplier]_vars

\* Round g has had a multiplier_update before this step and gets one in it.
NextUpdate(g) ==
    /\ emitted[g].multiplierUpdate > 0
    /\ emitted'[g].multiplierUpdate > emitted[g].multiplierUpdate

\* C13, as claimed: every multiplier_update of a round carries a multiplier
\* strictly greater than the one broadcast before it for that round.
C13_UpdatesStrictlyIncrease ==
    [][\A g \in Games :
          NextUpdate(g) => emitted'[g].lastMultiplier > emitted[g].lastMultiplier]_vars

\* C13, amended: every multiplier_update of a round carries a multiplier not
\* less than the one broadcast before it for that round.
C13_UpdatesNeverDecrease ==
    [][\A g \in Games :
          NextUpdate(g) => emitted'[g].lastMultiplier >= emitted[g].lastMultiplier]_vars

\* C13 witness: a round for which two multiplier_update events were broadcast.
C13_Witness == \E g \in Games : emitted[g].multiplierUpdate >= 2

\* The sum of the stored totalProfit of the users in U.
RECURSIVE TotalProfit(_)
TotalProfit(U) ==
    IF U = {} THEN 0
    ELSE LET u == CHOOSE v \in U : TRUE IN dbUsers[u].totalProfit + TotalProfit(U \ {u})

\* C14: with no settlement (no awaited call at all) under way, the users'
\* totalProfit add up to the payouts of the cashed-out bets of the crashed
\* rounds less the usdAmount of all bets of the crashed rounds.
C14_ProfitsAddUp ==
    tasks = EmptyBag =>
        LET inCrashed == {r \in AllBets : games[r[1]].status = "crashed"}
            cashed == {r \in inCrashed : BetAt(r).cashedOut}
        IN  TotalProfit(Users) =
                SumOver(cashed, "payout") - SumOver(inCrashed, "usdAmount")

\* C15: in a CRASHED round whose settlement is over (no awaited call of the
\* engine is pending), a bet that was not cashed out has profit = -usdAmount,
\* and a cashed-out bet has payout = cryptoAmount * cashedOutAt * priceAtTime
\* and profit = payout - usdAmount.
C15_SettledBets ==
    tasks = EmptyBag =>
        \A r \in AllBets :
            LET bet == BetAt(r)
            IN  games[r[1]].status = "crashed" =>
                    IF bet.cashedOut
                       THEN /\ bet.payout * 100 =
                                   bet.cryptoAmount * bet.cashedOutAt * bet.priceAtTime
                            /\ bet.profit = bet.payout - bet.usdAmount
                       ELSE bet.profit = -bet.usdAmount

\* C16: no event broadcast for a round while that round is WAITING or RUNNING
\* has the round's seed or its crashPoint in its payload.
C16_NoSecretBeforeCrash ==
    [][\A g \in Games, ev \in DOMAIN PayloadFields :
          (emitted'[g][ev] > emitted[g][ev] /\ games'[g].status \in {"waiting", "running"})
              => PayloadFields[ev] \cap {"seed", "crashPoint"} = {}]_vars

\* C17: the game_crashed event broadcast for a round carries the round's
\* roundId, its crashPoint and its seed.
C17_CrashRevealsSeed ==
    \A g \in Games :
        emitted[g].gameCrashed >= 1 =>
            LET msg == emitted[g].lastGameCrashed
            IN  /\ msg.roundId = g
                /\ msg.crashPoint = games[g].crashPoint
                /\ "seed" \in DOMAIN msg
                /\ msg.seed = games[g].seed

\* C18: the hash broadcast in new_round for a round is the SHA-256 of the
\* round's seed; new_round has been broadcast for a round before a bet is on
\* its bet list; and the round's seed, hash and crashPoint never change.
C18_HashCommitted ==
    /\ [](\A g \in Games :
            /\ emitted[g].newRound >= 1 =>
                   emitted[g].lastNewRound.hash = CreateHash(games[g].seed)
            /\ games[g].bets # <<>> => emitted[g].newRound >= 1)
    /\ [][\A g \in Games : /\ games'[g].seed = games[g].seed
                           /\ games'[g].hash = games[g].hash
                           /\ games'[g].crashPoint = games[g].crashPoint]_vars

\* C19: validateProof applied to what generateRoundData returned says valid,
\* computing the crash point again from (seed, round number) gives the same
\* crash point, and validateProof given a hash that is not the seed's says
\* valid = false with the reason 'Hash does not match seed'.
C19_ProofRoundTrips ==
    /\ pf.op \in {"generated", "validated"} =>
           /\ pf.data.hash = CreateHash(pf.seed)
           /\ CrashPointOf(pf.seed, pf.rn) = pf.data.crashPoint
    /\ pf.op = "validated" =>
           /\ (pf.hash = pf.data.hash /\ pf.crashPoint = pf.data.crashPoint)
                  => pf.result.valid
           /\ pf.hash # CreateHash(pf.seed)
                  => /\ ~pf.result.valid
                     /\ pf.result.reason = "Hash does not match seed"

\* C19 witness: validateProof was given a hash that is not the seed's (and the
\* crash point generateRoundData returned) and refused it.
C19_Witness ==
    /\ pf.op = "validated"
    /\ pf.hash # pf.data.hash
    /\ pf.crashPoint = pf.data.crashPoint
    /\ ~pf.result.valid

\* C20: the crash point computed from the integer x is between 1.01 and
\* 1000.00, and it is r = (M - x)/(M - x * 0.04) clamped to that range and cut
\* to hundredths: 1.01 when r < 1.01, 1000.00 when r > 1000, otherwise the
\* largest number of hundredths not above r.
C20_CrashPointInRange ==
    pf.op \in {"generated", "validated"} =>
        LET M == 2^HashBits - 1
            num == 25 * (M - pf.x)
            den == 25 * M - pf.x
            cp == pf.data.crashPoint
        IN  /\ pf.x \in HashInts
            /\ MinCrash <= cp /\ cp <= MaxCrash
            /\ \/ 100 * num < MinCrash * den /\ cp = MinCrash
               \/ 100 * num > MaxCrash * den /\ cp = MaxCrash
               \/ cp * den <= 100 * num /\ 100 * num < (cp + 1) * den

\* C20 witness: a crash point was computed from the largest x (r = 0).
C20_Witness == pf.op = "generated" /\ pf.x = 2^HashBits - 1

\* The bets of the current round that a tick with multiplier m finds
\* eligible for auto-cashout, as places in the round's bet list (the order
\* in which the bets were accepted).
Eligible(g, m) ==
    {b \in 1..Len(games[g].bets) : /\ ~games[g].bets[b].cashedOut
                                   /\ games[g].bets[b].autoCashOut # 0
                                   /\ games[g].bets[b].autoCashOut <= m}

\* C21: a tick of a running round that finds several bets eligible for
\* auto-cashout starts on them in acceptance order: the step of the tick
\* cashes out the first eligible bet at the tick's multiplier.
C21_AutoCashoutsInOrder ==
    [][\A i \in 1..Len(intervals) :
          (/\ intervals[i].active /\ intervals[i].next = now
           /\ i <= Len(intervals') /\ intervals'[i].next > now
           /\ currentGame # 0 /\ games[currentGame].status = "running")
          => LET m == Multiplier(now - intervals[i].startTime)
                 el == Eligible(currentGame, m)
                 first == CHOOSE b \in el : \A c \in el : b <= c
             IN  Cardinality(el) >= 2
                 => /\ games'[currentGame].bets[first].cashedOut
                    /\ games'[currentGame].bets[first].cashedOutAt = m]_vars

\* The round a cashout request is served in: the current round, running.
Running == currentGame # 0 /\ games[currentGame].status = "running"

\* The bets of user u in the current round: all of them, the cashed-out ones.
UserBets(u) == {b \in BetsOf(currentGame) : games[currentGame].bets[b].userId = u}
CashedBets(u) == {b \in UserBets(u) : games[currentGame].bets[b].cashedOut}

\* C22 as stated: once a cashout of a user has succeeded in the running
\* round, no later cashout request of that user cashes out a bet.
C22_LaterCashoutsRejected ==
    [][\A u \in Users :
          (Running /\ CashedBets(u) # {} /\ Cashout(u))
          => /\ reply' = Reply(u, "error", "No active bet found")
             /\ UNCHANGED <<games, dbUsers, tasks, emitted>>]_vars

\* C22: in the running round a cashout request of a user whose bets are all
\* cashed out is rejected with 'No active bet found' and changes no bet,
\* wallet or statistic; a request of a user who still has a bet that is not
\* cashed out cashes out the first such bet.
C22_NoActiveBetRejected ==
    [][\A u \in Users :
          (Running /\ Cashout(u))
          => IF CashedBets(u) = UserBets(u)
                THEN /\ reply' = Reply(u, "error", "No active bet found")
                     /\ UNCHANGED <<games, dbUsers, tasks, emitted>>
                ELSE LET first == CHOOSE b \in UserBets(u) \ CashedBets(u) :
                                      \A c \in UserBets(u) \ CashedBets(u) : b <= c
                     IN  /\ games'[currentGame].bets[first].cashedOut
                         /\ \A c \in UserBets(u) \ {first} :
                                games'[currentGame].bets[c] = games[currentGame].bets[c]]_vars

\* C22 witness: a cashout of a user has succeeded in the running round and
\* the user's next cashout request has just been answered 'No active bet found'.
C22_Witness ==
    \E u \in Users :
        /\ Running /\ CashedBets(u) # {} /\ CashedBets(u) = UserBets(u)
        /\ reply = Reply(u, "error", "No active bet found")

\* C23: a cashout request served while the current round is not running
\* (waiting, or crashed from the first statement of crashGame on) is answered
\* 'Cannot cash out at this time' and changes nothing.
C23_NotRunningRejected ==
    [][\A u \in Users :
          (~Running /\ Cashout(u))
          => /\ reply' = Reply(u, "error", "Cannot cash out at this time")
             /\ UNCHANGED <<games, dbUsers, tasks, emitted, timers, intervals,
                            roundNumber, currentGame, cashReqs>>]_vars

\* C23 witness: a user with a bet that is not cashed out has just been
\* answered 'Cannot cash out at this time' while crashGame is still settling
\* the losing bets of the round.
C23_Witness ==
    \E u \in Users :
        /\ currentGame # 0 /\ games[currentGame].status = "crashed"
        /\ UserBets(u) # CashedBets(u)
        /\ \E t \in BagToSet(tasks) : t.k = "cr_settle" /\ t.g = currentGame
        /\ reply = Reply(u, "error", "Cannot cash out at this time")

\* C24: a bet is appended to a round only by a place_bet whose cryptoAmount
\* the stored wallet of its user covers: a request whose cryptoAmount exceeds
\* the wallet balance, or whose wallet is missing, appends no bet.
C24_InsufficientBalanceRejected ==
    [][\A g \in Games :
          Len(games'[g].bets) > Len(games[g].bets)
          => LET bet == games'[g].bets[Len(games'[g].bets)]
             IN  /\ bet.currency \in DOMAIN dbUsers[bet.userId].wallets
                 /\ bet.cryptoAmount <= dbUsers[bet.userId].wallets[bet.currency]]_vars

\* C25: a place_bet request with usd_amount outside [0.01, 10000] (10 and
\* 10000000 thousandths) or a currency other than BTC, ETH, LTC, ADA, DOT is
\* answered with an error event on the socket it came from and changes
\* nothing else, whatever its auto_cash_out: the engine is not called, nothing
\* is broadcast.  A request with usd_amount exactly 0.01 or exactly 10000
\* and a listed currency is not answered with either of the two errors.
\* (Either the step is such a rejection, or it is not the handling of a
\* request outside the limits; either its answer is none of the two errors,
\* or it is not the handling of a request on the limits.)
C25_AmountAndCurrencyValidated ==
    [][LET ValidationErrors == {"Invalid bet amount", "Invalid currency"}
           Listed == {"BTC", "ETH", "LTC", "ADA", "DOT"}
           \* the step answered u with one of the two errors and did nothing else
           Rejected(u) ==
               /\ reply'.to = u /\ reply'.ev = "error"
               /\ reply'.message \in ValidationErrors
               /\ UNCHANGED <<now, roundNumber, currentGame, games,
                              multiplierInterval, intervals, timers, tasks,
                              dbUsers, emitted, betReqs, cashReqs>>
       IN  /\ \A u \in GatewayUsers :
                  \/ Rejected(u)
                  \/ \A usd \in GatewayUsdAmounts, cur \in GatewayCurrencies :
                         (usd < 10 \/ usd > 10000000 \/ cur \notin Listed)
                         => ~\E aco \in GatewayAutoCashOuts : PlaceBet(u, usd, cur, aco)
           /\ \/ reply'.message \notin ValidationErrors
              \/ \A u \in GatewayUsers, usd \in {10, 10000000},
                    cur \in GatewayCurrencies \cap Listed, aco \in GatewayAutoCashOuts :
                     ~PlaceBet(u, usd, cur, aco)]_vars

\* C25 witness: a bet of exactly 0.01 USD has been accepted, and a request
\* has just been answered 'Invalid bet amount'.
C25_Witness ==
    /\ \E r \in AllBets : BetAt(r).usdAmount = 10
    /\ reply = Reply("u1", "error", "Invalid bet amount")

\* C26: a place_bet request whose auto_cash_out is given (not null) and is
\* at most 1.00 or above 1000 is answered with an error event and changes
\* nothing else; every bet a step appends stores no auto_cash_out or one
\* above 1.00 and at most 1000.
C26_AutoCashOutValidated ==
    [][/\ \A u \in GatewayUsers, usd \in GatewayUsdAmounts, cur \in GatewayCurrencies,
             aco \in GatewayAutoCashOuts :
              (aco # Null /\ (aco <= 100 \/ aco > 100000) /\ PlaceBet(u, usd, cur, aco))
              => /\ reply'.to = u /\ reply'.ev = "error"
                 /\ UNCHANGED <<games, tasks, dbUsers, emitted, betReqs>>
       /\ \A g \in Games :
              Len(games'[g].bets) > Len(games[g].bets)
              => LET bet == games'[g].bets[Len(games'[g].bets)]
                 IN  bet.autoCashOut = 0
                     \/ (bet.autoCashOut > 100 /\ bet.autoCashOut <= 100000)]_vars

\* C27: a connection has at most 100 events handled within any 60 seconds.
\* (Every event of ConnSpec arrives within the same second.)
C27_RateLimited == conn.ops <= 100

\* The store call that failed in the step just taken, when one did.
FailedNow(op) ==
    /\ Len(faults') > Len(faults)
    /\ faults'[Len(faults')].op = op

\* C28: the step in which the save of startGame fails aborts the round: the
\* round is not left running, and the engine moves on to the next round (the
\* round number is advanced, or a timer is armed for it).
C28_FailedStartAborts ==
    [][FailedNow("startGame")
          => /\ games'[faults'[Len(faults')].g].status # "running"
             /\ (roundNumber' > roundNumber \/ timers' # timers)]_vars

\* C29: the step in which a store write of crashGame fails leaves the
\* settlement to be retried: the write is under way again, or a timer is
\* armed for the retry.
C29_FailedSettlementRetried ==
    [][FailedNow("crashGame")
          => \/ \E t \in BagToSet(tasks') : t.k \in {"cr_settle", "cr_save"}
             \/ timers' # timers]_vars

\* C30: getPrice of a supported currency always returns a positive price.
\* A cached price less than 10 s old is returned without a request to the
\* source.  Otherwise the source is asked: a price it answers with replaces
\* the cache entry and is returned; when it fails or answers without a
\* price the cache is left as it is and the cached price is returned if
\* there is one, else the fallback price BTC 45000, ETH 3000, LTC 100,
\* ADA 0.5, DOT 7.
C30_QuoteNeverFails ==
    [][LET cache == quotes.cache
           Claimed == [BTC |-> 450000, ETH |-> 30000, LTC |-> 1000, ADA |-> 5, DOT |-> 70]
       IN  /\ quotes'.last.cur # "none" => quotes'.last.price > 0
           /\ \A cur \in QuoteCurrencies :
                  (GetPrice(cur) /\ cache[cur].price # 0
                                 /\ now - cache[cur].timestamp < 10)
                  => /\ quotes'.last = [cur |-> cur, fetched |-> FALSE,
                                        price |-> cache[cur].price]
                     /\ quotes'.cache = cache
                     /\ quotes'.pending = quotes.pending
           /\ \A cur \in QuoteCurrencies :
                  (GetPrice(cur) /\ ~(cache[cur].price # 0
                                      /\ now - cache[cur].timestamp < 10))
                  => /\ cur \in quotes'.pending
                     /\ quotes'.cache = cache
           /\ \A cur \in QuoteCurrencies, out \in SourceOutcomes :
                  FetchResolved(cur, out)
                  => IF out.ok /\ out.usd > 0
                        THEN /\ quotes'.last.price = out.usd
                             /\ quotes'.cache =
                                   [cache EXCEPT ![cur] = [price |-> out.usd,
                                                           timestamp |-> now]]
                        ELSE /\ quotes'.cache = cache
                             /\ quotes'.last.price =
                                   IF cache[cur].price # 0 THEN cache[cur].price
                                                           ELSE Claimed[cur]]_vars

\* C30 witness: the source has just failed for a currency whose cached
\* price is 10 s old or older, and that price was returned.
C30_Witness ==
    \E cur \in QuoteCurrencies :
        /\ quotes.last = [cur |-> cur, fetched |-> TRUE, price |-> quotes.cache[cur].price]
        /\ quotes.cache[cur].price # 0
        /\ now - quotes.cache[cur].timestamp >= 10

\* C31: a game_history reply holds only crashed rounds, newest first, at
\* most as many as the limit asked for (50 when none was), and never more
\* than 200.
C31_HistoryBounded ==
    reply.ev = "game_history"
    => LET entries == reply.message
       IN  /\ \A i \in 1..Len(entries) : games[entries[i].roundId].status = "crashed"
           /\ \A i \in 1..Len(entries) - 1 : entries[i].createdAt > entries[i + 1].createdAt
           /\ Len(entries) <= (IF reply.limit = Null THEN DefaultLimit ELSE reply.limit)
           /\ Len(entries) <= 200

\* C31: what holds of every reply: crashed rounds only, newest first, the
\* newest ones without a gap, at most the limit asked for.
C31_HistoryWithinLimit ==
    reply.ev = "game_history"
    => LET entries == reply.message
           crashed == {g \in Games : games[g].status = "crashed"}
       IN  /\ \A i \in 1..Len(entries) : entries[i].roundId \in crashed
           /\ \A i \in 1..Len(entries) - 1 : entries[i].createdAt > entries[i + 1].createdAt
           /\ \A g \in crashed :
                 (Len(entries) > 0 /\ g > entries[Len(entries)].roundId)
                 => \E i \in 1..Len(entries) : entries[i].roundId = g
           /\ Len(entries) <= (IF reply.limit = Null THEN DefaultLimit ELSE reply.limit)

\* C32: when bet_placed is emitted for a round, no multiplier_update, no
\* player_cashout and no game_crashed has been emitted for that round.
C32_BetPlacedFirst ==
    [][\A g \in Games :
          emitted'[g].betPlaced > emitted[g].betPlaced
          => /\ emitted[g].multiplierUpdate = 0
             /\ emitted[g].playerCashout = 0
             /\ emitted[g].gameCrashed = 0]_vars

\* C33: at most one interval is live, it is the one this.multiplierInterval
\* holds, and the current round is running while it is live.
C33_OneLiveInterval ==
    LET live == {i \in 1..Len(intervals) : intervals[i].active}
    IN  /\ Cardinality(live) <= 1
        /\ \A i \in live : /\ i = multiplierInterval
                           /\ currentGame # 0
                           /\ games[currentGame].status = "running"

\* C34: once game_crashed has been emitted for a round, no multiplier_update
\* and no player_cashout is emitted for it, and no cashout of that round
\* (a client's or one of the tick's auto-cashout pass) that is waiting at an
\* await goes on to its next store write or to the rest of the pass.
C34_NothingAfterCrash ==
    [][\A g \in Games :
          emitted[g].gameCrashed > 0
          => /\ emitted'[g].multiplierUpdate = emitted[g].multiplierUpdate
             /\ emitted'[g].playerCashout = emitted[g].playerCashout
             /\ \A t \in BagToSet(tasks) :
                   (t.k \in {"co_update", "co_save"} /\ t.g = g)
                   => CopiesIn(t, tasks') >= CopiesIn(t, tasks)]_vars

C36_CrashPointAlwaysMin ==
    pf.op \in {"generated", "validated"} =>
        LET M == 2^HashBits - 1
        IN  /\ 25 * (M - pf.x) <= 25 * M - pf.x
            /\ pf.data.crashPoint = MinCrash

\* C36 witness: a crash point was computed from x = 0, where the ratio is 1,
\* its greatest value.
C36_Witness == pf.op = "generated" /\ pf.x = 0 /\ pf.data.crashPoint = MinCrash
====
